---------------------------- MODULE Spec2Model ----------------------------
(***************************************************************************)
(* Model of the secretsanta backend (bassosimone/tss):                     *)
(*   backend/src/secretsanta/pairings.py  generate_pairings,               *)
(*       violates_couples_constraint, generate_valid_pairings              *)
(*   backend/src/secretsanta/cli.py       _must_generate_pairings          *)
(* One run is one call of _must_generate_pairings on inputs fixed by Init. *)
(***************************************************************************)
EXTENDS Integers, Sequences, FiniteSets, TLC

(***************************************************************************)
(* Bounds of the model.                                                    *)
(***************************************************************************)
\* longest participant list drawn by Init
MaxParticipants == 4
\* longest couples list drawn by Init
MaxCouples == 2
\* largest max_retries drawn by Init
MaxRetries == 2
\* longest pairings list handed directly to violates_couples_constraint
MaxPairs == 2

(***************************************************************************)
(* Input data: names and couples of the test suites' fixtures.             *)
(***************************************************************************)
Names == {"Alice", "Bob", "Charlie", "Diana", "Eve"}

\* the names Init repeats in lists with duplicate lines
RepeatedNames == {"Alice", "Bob"}

\* the couples of the fixture sample_couples, and Alice-Charlie, which
\* forbids the distance 2 the other two leave open among four participants
CoupleChoices ==
    { <<"Alice", "Bob">>, <<"Charlie", "Diana">>, <<"Alice", "Charlie">> }

\* all sequences over S of length 0..n
SeqUpTo(S, n) == UNION { [1..k -> S] : k \in 0..n }

Unique(parts) ==
    \A i, j \in DOMAIN parts : i # j => parts[i] # parts[j]

\* read_participants keeps duplicate lines: every list of distinct names,
\* and every list over RepeatedNames, of up to MaxParticipants names
ParticipantLists ==
    { s \in SeqUpTo(Names, MaxParticipants) : Unique(s) }
        \cup SeqUpTo(RepeatedNames, MaxParticipants)

CoupleLists == SeqUpTo(CoupleChoices, MaxCouples)

\* max_retries of the scenario test_generates_valid_pairings
ScenarioRetries == 100

ScenarioParticipants == <<"Alice", "Bob", "Charlie", "Diana">>

ScenarioCouples == << <<"Alice", "Bob">> >>

(***************************************************************************)
(* Pure functions of pairings.py.                                          *)
(***************************************************************************)
Range(s) == { s[i] : i \in DOMAIN s }

\* mutant: only the order (person1, person2) of a couple is compared
ViolatesCouplesConstraint_ForwardOnly(pairings, cpls) ==
    \E i \in DOMAIN pairings : \E j \in DOMAIN cpls :
        pairings[i][1] = cpls[j][1] /\ pairings[i][2] = cpls[j][2]

\* mutant: "return False" indented into the inner loop, so that only the
\* first pairing is compared with the first couple
ViolatesCouplesConstraint_EarlyReturn(pairings, cpls) ==
    /\ pairings # <<>>
    /\ cpls # <<>>
    /\ { pairings[1][1], pairings[1][2] } = { cpls[1][1], cpls[1][2] }

\* for giver, receiver in pairings: for person1, person2 in couples: ...
ViolatesCouplesConstraint(pairings, cpls) ==
    \E i \in DOMAIN pairings : \E j \in DOMAIN cpls :
        LET giver == pairings[i][1]
            receiver == pairings[i][2]
            person1 == cpls[j][1]
            person2 == cpls[j][2]
        IN  \/ (giver = person1 /\ receiver = person2)
            \/ (giver = person2 /\ receiver = person1)

\* mutant: secrets.randbelow(tot), which can draw displacement 0
Displacements_FromZero(tot) == 0..(tot - 1)

\* mutant: secrets.randbelow(tot - 2) + 1, which never draws tot - 1
Displacements_NoLast(tot) == { r + 1 : r \in 0..(tot - 3) }

\* the values secrets.randbelow(tot - 1) + 1 can take
Displacements(tot) == { r + 1 : r \in 0..(tot - 2) }

\* mutant: the loop runs over range(tot - 1) and drops the last giver
BuildPairings_ShortLoop(parts, d) ==
    LET tot == Len(parts)
    IN  [ k \in 1..(tot - 1) |->
            << parts[k], parts[(((k - 1) + d) % tot) + 1] >> ]

\* the loop of generate_pairings for a drawn displacement; Python indexes
\* from 0, the sequences here from 1
BuildPairings(parts, d) ==
    LET tot == Len(parts)
    IN  [ k \in 1..tot |-> << parts[k], parts[(((k - 1) + d) % tot) + 1] >> ]

\* mutant: the guard reads tot <= 2
TooFewParticipants_OffByOne(parts) == Len(parts) <= 2

\* generate_pairings raises ValueError when tot < 2
TooFewParticipants(parts) == Len(parts) < 2

\* mutant: range(max_retries + 1), one attempt too many
RangeHasNext_Inclusive(att, retries) == att <= retries

\* range(max_retries) yields another attempt
RangeHasNext(att, retries) == att < retries

\* mutant: the zero-based loop variable is returned as the count
AttemptsReturned_ZeroBased(att) == att

\* the attempt count returned with the accepted candidates
AttemptsReturned(att) == att + 1

NoResult == <<>>

(***************************************************************************)
(* State.                                                                  *)
(***************************************************************************)
VARIABLES
    participants,   \* argument: list of names
    couples,        \* argument: list of (person1, person2)
    max_retries,    \* argument
    pc,             \* position in generate_valid_pairings
    attempt,        \* loop variable of range(max_retries)
    displacement,   \* last displacement drawn (0: none yet)
    candidates,     \* last list returned by generate_pairings
    result,         \* (pairings, attempts) returned, or NoResult
    error,          \* exception raised: "none", "ValueError", "PairingGenerationError"
    exit_status,    \* sys.exit code of _must_generate_pairings (-1: no exit)
    returned,       \* pairings returned by _must_generate_pairings
    calls,          \* history: calls of generate_pairings so far
    draws,          \* history: calls of secrets.randbelow so far
    previous        \* history: the candidate lists of all draws but the last

\* state of the direct calls of violates_couples_constraint
VARIABLES
    callee,         \* the implementation called: "package", "script", "none"
    verdict         \* its return value: "True", "False", or "none" before it

\* state of the calls of message_to_base64url_fragment and of the decoder
VARIABLES
    message,        \* argument: the text to encode, as code points
    padding_length, \* argument
    key,            \* bytes of the "k" field of the token in flight
    ciphertext,     \* bytes of its "c" field
    version,        \* its "v" field
    fragment,       \* the token in flight, as ASCII codes
    again,          \* a second call of the encoder, or NoCall
    plaintext,      \* return value of the decoder
    failure,        \* exception the decoder raised, or "none"
    step            \* position of the token: "NotCalled", "Start", "Encoded",
                    \* "EncodedTwice", "Tampered", "Decoded", "DecodeFailed"

codec == << message, padding_length, key, ciphertext, version, fragment,
            again, plaintext, failure, step >>

\* state of main() of cli.py
VARIABLES
    participants_file,  \* the file of --participants
    couples_file,       \* the file of --couples
    base_url,           \* --base-url, as ASCII codes
    main_pc,            \* position in main: "NotCalled", "Start",
                        \* "ParticipantsRead", "NamesValidated", "Generating",
                        \* "GeneratingUrls", "Done", "Exited"
    urls,               \* list of (giver, receiver, url) of _generate_urls
    steps               \* history: the functions main has called so far

cli == << participants_file, couples_file, base_url, main_pc, urls, steps >>

\* state of the retry loop of main() of the standalone script generate.py
VARIABLES
    script_pc,          \* position in the loop: "NotCalled", "Idle",
                        \* "Sampling", "Checking", "Accepted", "Exited",
                        \* "Raised"
    script_attempt,     \* loop variable of range(max_retries)
    candidate_pairings, \* last list returned by its generate_pairings
    script_pairings,    \* its variable pairings (NoPairings: None)
    script_printed,     \* the count of "Found valid pairings after ..." (0:
                        \* not printed)
    script_exit,        \* sys.exit code (-1: no exit)
    script_draws        \* history: displacements the script has drawn so far

script == << script_pc, script_attempt, candidate_pairings, script_pairings,
             script_printed, script_exit, script_draws >>

\* what a run of the pairing engine leaves alone
other == << callee, verdict, codec, cli, script >>

vars == << participants, couples, max_retries, pc, attempt, displacement,
           candidates, result, error, exit_status, returned, calls, draws,
           previous, other >>

inputs == << participants, couples, max_retries >>

NoCall == [ message |-> <<>>, padding_length |-> -1, key |-> <<>>,
            fragment |-> <<>> ]

\* no token yet
CodecLocals ==
    /\ key = <<>>
    /\ ciphertext = <<>>
    /\ version = 0
    /\ fragment = <<>>
    /\ again = NoCall
    /\ plaintext = <<>>
    /\ failure = "none"

\* the codec is not used
CodecIdle ==
    /\ message = <<>>
    /\ padding_length = 0
    /\ step = "NotCalled"
    /\ CodecLocals

\* a file that does not exist
NoFile == [ status |-> "missing", content |-> <<>> ]

\* main is not run
CliIdle ==
    /\ participants_file = NoFile
    /\ couples_file = NoFile
    /\ base_url = <<>>
    /\ main_pc = "NotCalled"
    /\ urls = <<>>
    /\ steps = <<>>

\* pairings = None, before any candidate
NoPairings == <<>>

ScriptLocals ==
    /\ script_attempt = 0
    /\ candidate_pairings = NoPairings
    /\ script_pairings = NoPairings
    /\ script_printed = 0
    /\ script_exit = -1
    /\ script_draws = 0

\* the script is not run
ScriptIdle ==
    /\ script_pc = "NotCalled"
    /\ ScriptLocals

\* nothing but the pairing engine runs
OtherIdle ==
    /\ callee = "none"
    /\ verdict = "none"
    /\ CodecIdle
    /\ CliIdle
    /\ ScriptIdle

InitLocals ==
    /\ pc = "Idle"
    /\ attempt = 0
    /\ displacement = 0
    /\ candidates = <<>>
    /\ result = NoResult
    /\ error = "none"
    /\ exit_status = -1
    /\ returned = <<>>
    /\ calls = 0
    /\ draws = 0
    /\ previous = {}
    /\ OtherIdle

Init ==
    /\ participants \in ParticipantLists
    /\ couples \in CoupleLists
    /\ max_retries \in 0..MaxRetries
    /\ InitLocals

(***************************************************************************)
(* generate_valid_pairings, one action per step of its loop.               *)
(***************************************************************************)
\* entering the for loop: the first next() of range(max_retries)
Enter ==
    /\ pc = "Idle"
    /\ IF RangeHasNext(0, max_retries)
         THEN pc' = "Sampling" /\ error' = error
         ELSE pc' = "Rejected" /\ error' = "PairingGenerationError"
    /\ UNCHANGED << inputs, other, attempt, displacement, candidates, result,
                    exit_status, returned, calls, draws, previous >>

\* candidates = generate_pairings(participants), with tot >= 2
Sample ==
    /\ pc = "Sampling"
    /\ ~TooFewParticipants(participants)
    /\ \E d \in Displacements(Len(participants)) :
         /\ displacement' = d
         /\ candidates' = BuildPairings(participants, d)
    /\ previous' = IF draws = 0 THEN previous ELSE previous \cup { candidates }
    /\ calls' = calls + 1
    /\ draws' = draws + 1
    /\ pc' = "Checking"
    /\ UNCHANGED << inputs, other, attempt, result, error, exit_status, returned >>

\* generate_pairings raises ValueError, which nothing here catches
SampleRaises ==
    /\ pc = "Sampling"
    /\ TooFewParticipants(participants)
    /\ calls' = calls + 1
    /\ error' = "ValueError"
    /\ pc' = "Raised"
    /\ UNCHANGED << inputs, other, attempt, displacement, candidates, result,
                    exit_status, returned, draws, previous >>

\* if not violates_couples_constraint(...): return (candidates, attempt + 1)
CheckAccept ==
    /\ pc = "Checking"
    /\ ~ViolatesCouplesConstraint(candidates, couples)
    /\ result' = << candidates, AttemptsReturned(attempt) >>
    /\ pc' = "Accepted"
    /\ UNCHANGED << inputs, other, attempt, displacement, candidates, error,
                    exit_status, returned, calls, draws, previous >>

\* the candidate violates and range(max_retries) yields another attempt
CheckRetry ==
    /\ pc = "Checking"
    /\ ViolatesCouplesConstraint(candidates, couples)
    /\ RangeHasNext(attempt + 1, max_retries)
    /\ attempt' = attempt + 1
    /\ pc' = "Sampling"
    /\ UNCHANGED << inputs, other, displacement, candidates, result, error,
                    exit_status, returned, calls, draws, previous >>

\* the candidate violates and the range is exhausted: raise
CheckReject ==
    /\ pc = "Checking"
    /\ ViolatesCouplesConstraint(candidates, couples)
    /\ ~RangeHasNext(attempt + 1, max_retries)
    /\ error' = "PairingGenerationError"
    /\ pc' = "Rejected"
    /\ UNCHANGED << inputs, other, attempt, displacement, candidates, result,
                    exit_status, returned, calls, draws, previous >>

(***************************************************************************)
(* _must_generate_pairings: the caller of generate_valid_pairings.         *)
(***************************************************************************)
\* pairings, attempts = generate_valid_pairings(...); return pairings
MustReturn ==
    /\ pc = "Accepted"
    /\ exit_status = -1
    /\ returned = <<>>
    /\ returned' = result[1]
    /\ UNCHANGED << inputs, other, pc, attempt, displacement, candidates, result,
                    error, exit_status, calls, draws, previous >>

\* except PairingGenerationError: sys.exit(1)
MustExit ==
    /\ pc = "Rejected"
    /\ error = "PairingGenerationError"
    /\ exit_status = -1
    /\ exit_status' = 1
    /\ UNCHANGED << inputs, other, pc, attempt, displacement, candidates, result,
                    error, returned, calls, draws, previous >>

Next ==
    \/ Enter
    \/ Sample
    \/ SampleRaises
    \/ CheckAccept
    \/ CheckRetry
    \/ CheckReject
    \/ MustReturn
    \/ MustExit

Spec == Init /\ [][Next]_vars

\* the program is sequential and never blocks: it always takes its next step
FairSpec == Spec /\ WF_vars(Next)

(***************************************************************************)
(* The scenario of test_generates_valid_pairings: four participants, one   *)
(* couple, max_retries = 100.  With four participants generate_pairings    *)
(* never raises, so SampleRaises is not a step of this run.                *)
(***************************************************************************)
ScenarioInit ==
    /\ participants = ScenarioParticipants
    /\ couples = ScenarioCouples
    /\ max_retries = ScenarioRetries
    /\ InitLocals

ScenarioNext ==
    \/ Enter
    \/ Sample
    \/ CheckAccept
    \/ CheckRetry
    \/ CheckReject
    \/ MustReturn
    \/ MustExit

ScenarioSpec == ScenarioInit /\ [][ScenarioNext]_vars /\ WF_vars(ScenarioNext)


(***************************************************************************)
(* Vocabulary of the properties.                                           *)
(***************************************************************************)
Givers(pairings) == { pairings[i][1] : i \in DOMAIN pairings }

Receivers(pairings) == { pairings[i][2] : i \in DOMAIN pairings }

\* dict(pairings)[giver], as the tests follow the chain
ReceiverOf(pairings, giver) ==
    LET i == CHOOSE k \in DOMAIN pairings : pairings[k][1] = giver
    IN  pairings[i][2]

\* the participant reached from start after n steps of the receiver chain
RECURSIVE Follow(_, _, _)
Follow(pairings, start, n) ==
    IF n = 0 THEN start
    ELSE ReceiverOf(pairings, Follow(pairings, start, n - 1))

\* from every start the chain visits everybody once and then returns
SingleCycle(pairings, parts) ==
    LET tot == Len(parts)
    IN  \A s \in Range(parts) :
          /\ { Follow(pairings, s, n) : n \in 0..(tot - 1) } = Range(parts)
          /\ Follow(pairings, s, tot) = s

\* generate_pairings has returned a list for unique participants
HasCandidates == candidates # <<>> /\ Unique(participants)

\* every candidate list drawn so far, the last one included
AllDrawn == IF draws = 0 THEN {} ELSE previous \cup { candidates }

Terminal == { "Accepted", "Rejected", "Raised" }

(***************************************************************************)
(* C1: for N >= 2 unique names and every displacement drawn, the receiver  *)
(* chain from any participant visits every participant exactly once before *)
(* returning to the start (one cycle of length N).                         *)
(***************************************************************************)
C1_SingleCycle ==
    (HasCandidates /\ Len(participants) >= 2)
        => SingleCycle(candidates, participants)

(***************************************************************************)
(* C2: for N >= 2 unique names, no pair returned by generate_pairings has  *)
(* its giver equal to its receiver.                                        *)
(***************************************************************************)
C2_Derangement ==
    (HasCandidates /\ Len(participants) >= 2)
        => \A i \in DOMAIN candidates : candidates[i][1] # candidates[i][2]

C2_Witness ==
    /\ pc = "Checking"
    /\ HasCandidates
    /\ Len(participants) = 4
    /\ displacement = 3

(***************************************************************************)
(* C3: for N >= 2 unique names, generate_pairings returns exactly N pairs, *)
(* the givers and the receivers are each the full participant set, and no  *)
(* name occurs twice as giver or twice as receiver.                        *)
(***************************************************************************)
C3_Bijection ==
    (HasCandidates /\ Len(participants) >= 2)
        => /\ Len(candidates) = Len(participants)
           /\ Givers(candidates) = Range(participants)
           /\ Receivers(candidates) = Range(participants)
           /\ \A i, j \in DOMAIN candidates :
                i # j => /\ candidates[i][1] # candidates[j][1]
                         /\ candidates[i][2] # candidates[j][2]

C3_Witness ==
    /\ pc = "Checking"
    /\ HasCandidates
    /\ Len(participants) = 4
    /\ displacement = 2

(***************************************************************************)
(* C4: an assignment set returned by generate_valid_pairings contains, for *)
(* every couple (A, B) of the exclusion list, neither A->B nor B->A.       *)
(***************************************************************************)
C4_Exclusion ==
    /\ result # NoResult =>
         \A j \in DOMAIN couples :
           /\ << couples[j][1], couples[j][2] >> \notin Range(result[1])
           /\ << couples[j][2], couples[j][1] >> \notin Range(result[1])
    /\ \A j \in DOMAIN couples :
           /\ << couples[j][1], couples[j][2] >> \notin Range(returned)
           /\ << couples[j][2], couples[j][1] >> \notin Range(returned)

C4_Witness ==
    /\ pc = "Accepted"
    /\ returned # <<>>
    /\ draws >= 2
    /\ Len(couples) = 2
    /\ \A j \in DOMAIN couples :
         { couples[j][1], couples[j][2] } \subseteq Range(participants)

(***************************************************************************)
(* C5: on success the returned assignment set is the candidate of the k-th *)
(* draw, every draw 1..k-1 violated the exclusions, and the returned       *)
(* attempt count is k with 1 <= k <= max_retries.                          *)
(***************************************************************************)
C5_FirstNonViolating ==
    pc = "Accepted" =>
        /\ result # NoResult
        /\ result[1] = BuildPairings(participants, displacement)
        /\ result[1] = candidates
        /\ ~ViolatesCouplesConstraint(result[1], couples)
        /\ \A c \in previous : ViolatesCouplesConstraint(c, couples)
        /\ result[2] = draws
        /\ 1 <= result[2]
        /\ result[2] <= max_retries

C5_Witness ==
    /\ pc = "Accepted"
    /\ result # NoResult
    /\ draws = 2
    /\ Cardinality(previous) = 1
    /\ result[2] = 2

(***************************************************************************)
(* C6: generate_valid_pairings raises PairingGenerationError exactly when  *)
(* all max_retries drawn candidates violate the exclusions; then no        *)
(* assignment set is returned and the caller gets the failure.             *)
(***************************************************************************)
C6_FailsIffExhausted ==
    /\ error = "PairingGenerationError" =>
         /\ pc = "Rejected"
         /\ draws = max_retries
         /\ \A c \in AllDrawn : ViolatesCouplesConstraint(c, couples)
         /\ result = NoResult
         /\ returned = <<>>
    /\ ( /\ pc \in Terminal
         /\ draws = max_retries
         /\ \A c \in AllDrawn : ViolatesCouplesConstraint(c, couples) )
         => error = "PairingGenerationError"
    /\ pc = "Rejected" => error = "PairingGenerationError"
    /\ exit_status # -1 =>
         /\ exit_status = 1
         /\ error = "PairingGenerationError"

C6_Witness ==
    /\ pc = "Rejected"
    /\ error = "PairingGenerationError"
    /\ exit_status = 1
    /\ draws = 2
    /\ Cardinality(AllDrawn) = 2

(***************************************************************************)
(* C7: with N >= 2 and max_attempts >= 1 the retry loop moves Idle ->      *)
(* Sampling -> Checking -> {Accepted | Sampling | Rejected}: back to       *)
(* Sampling only on a violation with attempts left, to Rejected only on a  *)
(* violation with the budget exhausted, to Accepted otherwise; every run   *)
(* reaches Accepted or Rejected after at most max_attempts draws and the   *)
(* attempt counter never exceeds max_attempts.                             *)
(***************************************************************************)
C7_Pre == Len(participants) >= 2 /\ max_retries >= 1

C7_Step ==
    C7_Pre =>
        /\ pc = "Idle" => pc' \in { "Idle", "Sampling" }
        /\ pc = "Sampling" => pc' \in { "Sampling", "Checking" }
        /\ pc = "Checking" =>
             \/ pc' = "Checking"
             \/ /\ pc' = "Sampling"
                /\ ViolatesCouplesConstraint(candidates, couples)
                /\ draws < max_retries
             \/ /\ pc' = "Rejected"
                /\ ViolatesCouplesConstraint(candidates, couples)
                /\ draws >= max_retries
             \/ /\ pc' = "Accepted"
                /\ ~ViolatesCouplesConstraint(candidates, couples)
        /\ pc \in { "Accepted", "Rejected" } => pc' = pc
        /\ draws' \in { draws, draws + 1 }
        /\ draws' = draws + 1 <=> (pc = "Sampling" /\ pc' = "Checking")

C7_Bounded ==
    C7_Pre =>
        /\ pc \in { "Idle", "Sampling", "Checking", "Accepted", "Rejected" }
        /\ attempt < max_retries
        /\ draws <= max_retries
        /\ pc = "Sampling" => draws < max_retries

C7_RetryStateMachine ==
    /\ [][C7_Step]_vars
    /\ []C7_Bounded
    /\ C7_Pre => <>(pc \in { "Accepted", "Rejected" })

C7_Witness ==
    /\ C7_Pre
    /\ pc = "Sampling"
    /\ draws = 1
    /\ attempt = 1
    /\ max_retries = 2

(***************************************************************************)
(* C8 as stated: with [Alice, Bob, Charlie, Diana], the couple {Alice,     *)
(* Bob} and max_attempts = 100, every run ends successfully with 4         *)
(* assignments whose givers are the 4 participants, never in               *)
(* ConstraintUnsatisfiable.                                                *)
(***************************************************************************)
C8_AlwaysSucceeds ==
    /\ pc # "Rejected"
    /\ error = "none"
    /\ exit_status = -1
    /\ pc \in Terminal =>
         /\ pc = "Accepted"
         /\ Len(result[1]) = 4
         /\ Givers(result[1]) = Range(participants)

(***************************************************************************)
(* C8 amended: in that scenario every run terminates; it ends successfully *)
(* (4 assignments, givers the 4 participants, displacement 2) unless each  *)
(* of the 100 draws gave displacement 1 or 3, and only then ends in        *)
(* ConstraintUnsatisfiable.                                                *)
(***************************************************************************)
C8_SucceedsUnlessAllDrawsViolate ==
    /\ <>(pc \in { "Accepted", "Rejected" })
    /\ [](pc = "Accepted" =>
            /\ Len(result[1]) = 4
            /\ Givers(result[1]) = Range(participants)
            /\ result[1] = BuildPairings(participants, 2)
            /\ error = "none"
            /\ exit_status = -1)
    /\ [](pc = "Rejected" =>
            /\ draws = ScenarioRetries
            /\ AllDrawn \subseteq { BuildPairings(participants, 1),
                                    BuildPairings(participants, 3) }
            /\ error = "PairingGenerationError")
    /\ [](pc # "Raised")

C8_Witness ==
    /\ pc = "Rejected"
    /\ draws = ScenarioRetries
    /\ exit_status = 1
    /\ Cardinality(AllDrawn) = 2

(***************************************************************************)
(* C9: with exactly two participants who form an exclusion pair and any    *)
(* max_attempts >= 1, generate_valid_pairings never succeeds: it performs  *)
(* exactly max_attempts draws, each violating, then fails with             *)
(* ConstraintUnsatisfiable, and the CLI exits with status 1.               *)
(***************************************************************************)
C9_Pre ==
    /\ Len(participants) = 2
    /\ participants[1] # participants[2]
    /\ max_retries >= 1
    /\ \E j \in DOMAIN couples :
         { couples[j][1], couples[j][2] } = Range(participants)

C9_Safe ==
    C9_Pre =>
        /\ pc \notin { "Accepted", "Raised" }
        /\ result = NoResult
        /\ returned = <<>>
        /\ \A c \in AllDrawn : ViolatesCouplesConstraint(c, couples)
        /\ draws <= max_retries
        /\ pc = "Rejected" => draws = max_retries
        /\ exit_status # -1 => exit_status = 1

C9_CoupleOfTwoAlwaysFails ==
    /\ []C9_Safe
    /\ C9_Pre => <>( /\ pc = "Rejected"
                     /\ error = "PairingGenerationError"
                     /\ draws = max_retries
                     /\ exit_status = 1 )

C9_Witness ==
    /\ C9_Pre
    /\ pc = "Rejected"
    /\ draws = 2
    /\ exit_status = 1

(***************************************************************************)
(* C10: generate_pairings raises ValueError for every list of length 0 or  *)
(* 1, before any displacement is drawn and without returning any pair; for *)
(* every list of length >= 2 it does not raise.                            *)
(***************************************************************************)
C10_TooFewRaises ==
    /\ Len(participants) < 2 =>
         /\ draws = 0
         /\ displacement = 0
         /\ candidates = <<>>
         /\ result = NoResult
         /\ calls <= 1
         /\ calls = 1 <=> (pc = "Raised" /\ error = "ValueError")
    /\ Len(participants) >= 2 =>
         /\ error # "ValueError"
         /\ pc # "Raised"
         /\ calls = draws
         /\ calls > 0 => Len(candidates) > 0

C10_Witness ==
    /\ Len(participants) = 1
    /\ pc = "Raised"
    /\ error = "ValueError"
    /\ calls = 1


(***************************************************************************)
(* Direct calls of violates_couples_constraint, as the tests make them, on *)
(* arbitrary lists of pairs: the package's function (pairings.py) and the  *)
(* standalone script's (generate.py).  The arguments are candidates and    *)
(* couples.                                                                *)
(***************************************************************************)
PairNames == {"Alice", "Bob", "Charlie"}

AnyPairs == PairNames \X PairNames

\* generate.py: the two comparisons joined by "or" in one condition
ScriptViolatesCouplesConstraint(pairings, cpls) ==
    \E i \in DOMAIN pairings : \E j \in DOMAIN cpls :
        LET giver == pairings[i][1]
            receiver == pairings[i][2]
            person1 == cpls[j][1]
            person2 == cpls[j][2]
        IN  (giver = person1 /\ receiver = person2)
                \/ (giver = person2 /\ receiver = person1)

\* Python's bool as the model records it
PyBool(b) == IF b THEN "True" ELSE "False"

ViolatesInit ==
    /\ candidates \in SeqUpTo(AnyPairs, MaxPairs)
    /\ couples \in SeqUpTo(AnyPairs, MaxCouples)
    /\ callee \in { "package", "script" }
    /\ verdict = "none"
    /\ participants = <<>>
    /\ max_retries = 0
    /\ pc = "NotCalled"
    /\ attempt = 0
    /\ displacement = 0
    /\ result = NoResult
    /\ error = "none"
    /\ exit_status = -1
    /\ returned = <<>>
    /\ calls = 0
    /\ draws = 0
    /\ previous = {}
    /\ CodecIdle
    /\ CliIdle
    /\ ScriptIdle

engine == << participants, max_retries, pc, attempt, displacement, result,
             error, exit_status, returned, calls, draws, previous >>

\* violates_couples_constraint(pairings=candidates, couples=couples)
CallViolates ==
    /\ callee = "package"
    /\ verdict = "none"
    /\ verdict' = PyBool(ViolatesCouplesConstraint(candidates, couples))
    /\ UNCHANGED << engine, candidates, couples, callee, codec, cli, script >>

\* generate.py: violates_couples_constraint(candidates, couples)
CallScriptViolates ==
    /\ callee = "script"
    /\ verdict = "none"
    /\ verdict' = PyBool(ScriptViolatesCouplesConstraint(candidates, couples))
    /\ UNCHANGED << engine, candidates, couples, callee, codec, cli, script >>

ViolatesNext ==
    \/ CallViolates
    \/ CallScriptViolates

ViolatesSpec == ViolatesInit /\ [][ViolatesNext]_vars

\* the function the run called, on other arguments
CalleeViolates(pairings, cpls) ==
    IF callee = "package"
      THEN ViolatesCouplesConstraint(pairings, cpls)
      ELSE ScriptViolatesCouplesConstraint(pairings, cpls)

\* cpls with the two members of its j-th couple exchanged
SwapCouple(cpls, j) ==
    [ k \in DOMAIN cpls |->
        IF k = j THEN << cpls[k][2], cpls[k][1] >> ELSE cpls[k] ]

(***************************************************************************)
(* C11: violates_couples_constraint returns true iff some pair and some    *)
(* couple satisfy {giver, receiver} = {p1, p2}; swapping the members of    *)
(* any couple leaves the result unchanged, an empty couples list gives     *)
(* false, and neither argument is modified.                                *)
(***************************************************************************)
C11_Meaning ==
    verdict # "none" =>
        /\ verdict = "True" <=>
             \E i \in DOMAIN candidates : \E j \in DOMAIN couples :
                { candidates[i][1], candidates[i][2] }
                    = { couples[j][1], couples[j][2] }
        /\ verdict \in { "True", "False" }
        /\ \A j \in DOMAIN couples :
             PyBool(CalleeViolates(candidates, SwapCouple(couples, j)))
                 = verdict
        /\ couples = <<>> => verdict = "False"

C11_ArgumentsKept == candidates' = candidates /\ couples' = couples

Ljust(text, width) ==
    IF Len(text) >= width THEN text
    ELSE text \o [ i \in 1..(width - Len(text)) |-> 32 ]

\* one code point as UTF-8
Utf8Char(cp) ==
    IF cp < 128 THEN << cp >>
    ELSE IF cp < 2048 THEN << 192 + (cp \div 64), 128 + (cp % 64) >>
    ELSE IF cp < 65536
      THEN << 224 + (cp \div 4096), 128 + ((cp \div 64) % 64),
              128 + (cp % 64) >>
    ELSE << 240 + (cp \div 262144), 128 + ((cp \div 4096) % 64),
            128 + ((cp \div 64) % 64), 128 + (cp % 64) >>

\* str.encode("utf-8")
RECURSIVE Utf8Encode(_)
Utf8Encode(text) ==
    IF text = <<>> THEN <<>>
    ELSE Utf8Char(Head(text)) \o Utf8Encode(Tail(text))

\* the result of a failed conversion
Malformed == << -1 >>

IsContinuation(b) == b >= 128 /\ b < 192

\* bytes.decode("utf-8"): the code points, or Malformed (UnicodeDecodeError)
RECURSIVE Utf8Decode(_)
Utf8Decode(bytes) ==
    IF bytes = <<>> THEN <<>>
    ELSE
      LET b == bytes[1]
          n == Len(bytes)
          size == IF b < 128 THEN 1
                  ELSE IF b >= 194 /\ b < 224 THEN 2
                  ELSE IF b >= 224 /\ b < 240 THEN 3
                  ELSE IF b >= 240 /\ b < 245 THEN 4
                  ELSE 0
          cp == IF size = 1 THEN b
                ELSE IF size = 2 THEN (b - 192) * 64 + (bytes[2] - 128)
                ELSE IF size = 3
                  THEN (b - 224) * 4096 + (bytes[2] - 128) * 64
                           + (bytes[3] - 128)
                ELSE (b - 240) * 262144 + (bytes[2] - 128) * 4096
                         + (bytes[3] - 128) * 64 + (bytes[4] - 128)
          wellFormed ==
              /\ size > 0
              /\ size <= n
              /\ \A i \in 2..size : IsContinuation(bytes[i])
              /\ size = 3 => /\ cp >= 2048
                             /\ ~(cp >= 55296 /\ cp < 57344)
              /\ size = 4 => cp >= 65536 /\ cp < 1114112
      IN  IF ~wellFormed THEN Malformed
          ELSE LET rest == Utf8Decode(SubSeq(bytes, size + 1, n))
               IN  IF rest = Malformed THEN Malformed ELSE << cp >> \o rest

\* a ^ b on bytes
RECURSIVE Xor(_, _)
Xor(a, b) ==
    IF a = 0 THEN b
    ELSE IF b = 0 THEN a
    ELSE ((a + b) % 2) + 2 * Xor(a \div 2, b \div 2)

Min(a, b) == IF a < b THEN a ELSE b

\* bytes(a ^ b for a, b in zip(xs, ys)): zip stops at the shorter
XorZip(xs, ys) == [ i \in 1..Min(Len(xs), Len(ys)) |-> Xor(xs[i], ys[i]) ]

\* the ASCII code of the i-th character (i in 0..63) of a base64 alphabet;
\* the standard one ends in + and /, the URL-safe one in - and _
B64Char(i, urlsafe) ==
    IF i < 26 THEN 65 + i
    ELSE IF i < 52 THEN 97 + (i - 26)
    ELSE IF i < 62 THEN 48 + (i - 52)
    ELSE IF i = 62 THEN (IF urlsafe THEN 45 ELSE 43)
    ELSE (IF urlsafe THEN 95 ELSE 47)

\* the place of character c in the alphabet, or -1
B64Index(c, urlsafe) ==
    IF c >= 65 /\ c <= 90 THEN c - 65
    ELSE IF c >= 97 /\ c <= 122 THEN c - 97 + 26
    ELSE IF c >= 48 /\ c <= 57 THEN c - 48 + 52
    ELSE IF c = (IF urlsafe THEN 45 ELSE 43) THEN 62
    ELSE IF c = (IF urlsafe THEN 95 ELSE 47) THEN 63
    ELSE -1

Pow64(e) == IF e = 0 THEN 1 ELSE IF e = 1 THEN 64 ELSE IF e = 2 THEN 4096
            ELSE 262144

\* base64.b64encode / base64.urlsafe_b64encode: 4 characters for every 3
\* bytes, the last group filled with "="
B64Encode(bytes, urlsafe) ==
    LET n == Len(bytes)
        groups == (n + 2) \div 3
        At(k) == IF k <= n THEN bytes[k] ELSE 0
    IN  [ p \in 1..(4 * groups) |->
            LET q == (p - 1) \div 4
                r == (p - 1) % 4
                v == At(3 * q + 1) * 65536 + At(3 * q + 2) * 256
                         + At(3 * q + 3)
            IN  IF (r = 2 /\ 3 * q + 2 > n) \/ (r = 3 /\ 3 * q + 3 > n)
                  THEN 61
                  ELSE B64Char((v \div Pow64(3 - r)) % 64, urlsafe) ]

\* base64.b64decode / base64.urlsafe_b64decode of text made of whole groups
\* of alphabet characters with "=" only at the end: the bytes; any other
\* text is Malformed (binascii.Error)
B64Decode(chars, urlsafe) ==
    LET m == Len(chars)
        pad == IF m >= 2 /\ chars[m] = 61 /\ chars[m - 1] = 61 THEN 2
               ELSE IF m >= 1 /\ chars[m] = 61 THEN 1
               ELSE 0
        Ix(k) == IF chars[k] = 61 THEN 0 ELSE B64Index(chars[k], urlsafe)
    IN  IF \/ m % 4 # 0
           \/ \E k \in 1..(m - pad) : B64Index(chars[k], urlsafe) < 0
          THEN Malformed
          ELSE [ j \in 1..((m \div 4) * 3 - pad) |->
                   LET q == (j - 1) \div 3
                       r == (j - 1) % 3
                       v == Ix(4 * q + 1) * 262144 + Ix(4 * q + 2) * 4096
                                + Ix(4 * q + 3) * 64 + Ix(4 * q + 4)
                   IN  IF r = 0 THEN v \div 65536
                       ELSE IF r = 1 THEN (v \div 256) % 256
                       ELSE v % 256 ]

\* the decimal digits of a natural number, as json.dumps writes an int
RECURSIVE Digits(_)
Digits(n) ==
    IF n < 10 THEN << 48 + n >> ELSE Digits(n \div 10) \o << 48 + (n % 10) >>

\* int of a sequence of decimal digits
RECURSIVE ParseInt(_)
ParseInt(digits) ==
    IF digits = <<>> THEN 0
    ELSE 10 * ParseInt(SubSeq(digits, 1, Len(digits) - 1))
             + (digits[Len(digits)] - 48)

\* json.dumps({"v": v, "k": k, "c": c}, separators=(",", ":")): the text
\* {"v":<v>,"k":"<k>","c":"<c>"}, keys in insertion order, no blanks
JsonDumps(v, k, c) ==
    << 123, 34, 118, 34, 58 >> \o Digits(v)
        \o << 44, 34, 107, 34, 58, 34 >> \o k
        \o << 34, 44, 34, 99, 34, 58, 34 >> \o c
        \o << 34, 125 >>

\* the first place at or after from where text holds character c, or 0
FirstAt(text, c, from) ==
    LET places == { i \in from..Len(text) : text[i] = c }
    IN  IF places = {} THEN 0
        ELSE CHOOSE i \in places : \A j \in places : i <= j

\* text holds the literal lit at place at
IsPrefixAt(text, lit, at) ==
    /\ at >= 1
    /\ at + Len(lit) - 1 <= Len(text)
    /\ \A i \in 1..Len(lit) : text[at + i - 1] = lit[i]

\* what JsonLoads gives for a text it does not read
NoPayload == [ v |-> -1, k |-> <<>>, c |-> <<>> ]

\* json.loads of a text in the compact form written by JsonDumps: the
\* payload, or NoPayload for any other text (a JSONDecodeError or, for JSON
\* of another shape, the KeyError or TypeError of the reads of the decoder)
JsonLoads(text) ==
    LET comma   == FirstAt(text, 44, 1)
        digits  == SubSeq(text, 6, comma - 1)
        kstart  == comma + 6
        kend    == FirstAt(text, 34, kstart)
        cstart  == kend + 7
        cend    == FirstAt(text, 34, cstart)
    IN  IF /\ IsPrefixAt(text, << 123, 34, 118, 34, 58 >>, 1)
           /\ comma > 6
           /\ \A i \in 1..Len(digits) : digits[i] >= 48 /\ digits[i] <= 57
           /\ Len(digits) = 1 \/ digits[1] # 48
           /\ IsPrefixAt(text, << 44, 34, 107, 34, 58, 34 >>, comma)
           /\ kend > 0
           /\ IsPrefixAt(text, << 34, 44, 34, 99, 34, 58, 34 >>, kend)
           /\ cend > 0
           /\ IsPrefixAt(text, << 34, 125 >>, cend)
           /\ Len(text) = cend + 1
          THEN [ v |-> ParseInt(digits),
                 k |-> SubSeq(text, kstart, kend - 1),
                 c |-> SubSeq(text, cstart, cend - 1) ]
          ELSE NoPayload

\* str.isspace of one code point
IsSpace(cp) ==
    \/ cp >= 9 /\ cp <= 13
    \/ cp >= 28 /\ cp <= 32
    \/ cp \in { 133, 160, 5760, 8232, 8233, 8239, 8287, 12288 }
    \/ cp >= 8192 /\ cp <= 8202

\* str.rstrip(): trailing whitespace removed
RECURSIVE Rstrip(_)
Rstrip(text) ==
    IF text # <<>> /\ IsSpace(text[Len(text)])
      THEN Rstrip(SubSeq(text, 1, Len(text) - 1))
      ELSE text

\* str.lstrip(): leading whitespace removed
RECURSIVE Lstrip(_)
Lstrip(text) ==
    IF text # <<>> /\ IsSpace(Head(text)) THEN Lstrip(Tail(text)) ELSE text

Strip_TrailingOnly(text) == Rstrip(text)

Strip_EverySpace(text) == SelectSeq(text, LAMBDA c : ~IsSpace(c))

\* str.strip(): leading and trailing whitespace removed
Strip(text) == Lstrip(Rstrip(text))

\* fragment.rstrip("="): trailing "=" removed
RECURSIVE RstripEquals(_)
RstripEquals(chars) ==
    IF chars # <<>> /\ chars[Len(chars)] = 61
      THEN RstripEquals(SubSeq(chars, 1, Len(chars) - 1))
      ELSE chars

\* while len(fragment) % 4: fragment += "="
Repad(chars) == chars \o [ i \in 1..((4 - (Len(chars) % 4)) % 4) |-> 61 ]

\* crypto.py lines 36-41: the payload as a token
FragmentOfPayload(v, k, c) ==
    RstripEquals(B64Encode(JsonDumps(v, B64Encode(k, FALSE),
                                      B64Encode(c, FALSE)), TRUE))

PaddedBytes_NoPadding(text, width) == Utf8Encode(text)

\* crypto.py lines 18-21: message.ljust(padding_length).encode("utf-8")
PaddedBytes(text, width) == Utf8Encode(Ljust(text, width))

\* crypto.py line 27, the ciphertext of a message under a key
Encrypt(text, width, k) == XorZip(PaddedBytes(text, width), k)

MessageToBase64urlFragment_StaticKey(text, width, k) ==
    LET zeros == [ i \in 1..Len(k) |-> 0 ]
    IN  FragmentOfPayload(1, zeros, Encrypt(text, width, zeros))

\* message_to_base64url_fragment(message, padding_length) when
\* secrets.token_bytes returns k
MessageToBase64urlFragment(text, width, k) ==
    FragmentOfPayload(1, k, Encrypt(text, width, k))

SupportedVersion_AtLeast(v) == v >= 1

\* crypto_test.py line 27, negated: payload["v"] != 1 raises
SupportedVersion(v) == v = 1

\* the decoder's outcomes
Raised(exception) == [ failure |-> exception, plaintext |-> <<>> ]
Returned(text) == [ failure |-> "none", plaintext |-> text ]

\* _base64url_fragment_to_message(fragment)
Base64urlFragmentToMessage(chars) ==
    LET json_bytes == B64Decode(Repad(chars), TRUE)
        payload == JsonLoads(json_bytes)
        k == B64Decode(payload.k, FALSE)
        c == B64Decode(payload.c, FALSE)
        plaintext_bytes == XorZip(c, k)
        text == Utf8Decode(plaintext_bytes)
    IN  IF json_bytes = Malformed THEN Raised("binascii.Error")
        ELSE IF \E i \in 1..Len(json_bytes) : json_bytes[i] >= 128
          THEN Raised("UnicodeDecodeError")
        ELSE IF payload = NoPayload THEN Raised("JSONDecodeError")
        ELSE IF ~SupportedVersion(payload.v) THEN Raised("ValueError")
        ELSE IF k = Malformed \/ c = Malformed THEN Raised("binascii.Error")
        ELSE IF text = Malformed THEN Raised("UnicodeDecodeError")
        ELSE Returned(Strip(text))

(***************************************************************************)
(* The token codec as a state machine: one call of the encoder on the      *)
(* arguments of the initial state, then either a second call on any        *)
(* arguments, or the decoding of the token, which may have been tampered   *)
(* with on its way.                                                        *)
(***************************************************************************)
MaxMessage == 2
MaxPadding == 3
MaxCut == 1

DefaultPadding == 32
ShortPadding == 16

\* the characters of the plaintexts: a space, "A" and the two-byte e-acute
MessageChars == { 32, 65, 233 }

\* "Alice", the name of the tests
Alice == << 65, 108, 105, 99, 101 >>

\* "Alice Smith", the name with an inner space of the tests
AliceSmith == << 65, 108, 105, 99, 101, 32, 83, 109, 105, 116, 104 >>

Messages == SeqUpTo(MessageChars, MaxMessage) \cup { Alice, AliceSmith }

Paddings == 0..MaxPadding \cup { ShortPadding, DefaultPadding }

Keys_OneShort(n) ==
    { [ i \in 1..(n - 1) |-> fill ] : fill \in { 0, 255 } }
        \cup { [ i \in 1..(n - 1) |-> (37 * i + 11) % 256 ] }

\* secrets.token_bytes(n): n bytes.  Of the 256^n results the model draws
\* three: all bits clear, all bits set, and one of mixed bytes.
Keys(n) ==
    { [ i \in 1..n |-> fill ] : fill \in { 0, 255 } }
        \cup { [ i \in 1..n |-> (37 * i + 11) % 256 ] }

\* the version fields a tampered token may carry
Versions == { 0, 1, 2 }

\* the pairing engine and the direct calls are not used
EngineNotCalled ==
    /\ participants = <<>>
    /\ couples = <<>>
    /\ max_retries = 0
    /\ pc = "NotCalled"
    /\ attempt = 0
    /\ displacement = 0
    /\ candidates = <<>>
    /\ result = NoResult
    /\ error = "none"
    /\ exit_status = -1
    /\ returned = <<>>
    /\ calls = 0
    /\ draws = 0
    /\ previous = {}
    /\ callee = "none"
    /\ verdict = "none"

CodecInit ==
    /\ message \in Messages
    /\ padding_length \in Paddings
    /\ step = "Start"
    /\ CodecLocals
    /\ EngineNotCalled
    /\ CliIdle
    /\ ScriptIdle

pairing == << engine, candidates, couples, callee, verdict, cli, script >>

\* fragment = message_to_base64url_fragment(message, padding_length)
Encode ==
    /\ step = "Start"
    /\ \E k \in Keys(Len(PaddedBytes(message, padding_length))) :
         /\ key' = k
         /\ ciphertext' = Encrypt(message, padding_length, k)
         /\ fragment' = MessageToBase64urlFragment(message, padding_length, k)
    /\ version' = 1
    /\ step' = "Encoded"
    /\ UNCHANGED << pairing, message, padding_length, again, plaintext,
                    failure >>

\* a second call, on another message or with another padding length or
\* on the same arguments, as in the tests that compare two fragments
EncodeAgain ==
    /\ step = "Encoded"
    /\ \E text \in Messages, width \in Paddings :
         /\ text = message \/ width = padding_length
         /\ \E k \in Keys(Len(PaddedBytes(text, width))) :
           again' = [ message |-> text, padding_length |-> width, key |-> k,
                      fragment |->
                          MessageToBase64urlFragment(text, width, k) ]
    /\ step' = "EncodedTwice"
    /\ UNCHANGED << pairing, message, padding_length, key, ciphertext,
                    version, fragment, plaintext, failure >>

\* s without its last n elements
DropLast(s, n) == SubSeq(s, 1, Len(s) - n)

\* the token reaches the decoder changed: another version, a key or a
\* ciphertext cut short
Tamper ==
    /\ step = "Encoded"
    /\ \E v \in Versions, cutk \in 0..MaxCut, cutc \in 0..MaxCut :
         /\ version' = v
         /\ key' = DropLast(key, cutk)
         /\ ciphertext' = DropLast(ciphertext, cutc)
         /\ << version', key', ciphertext' >> # << version, key, ciphertext >>
         /\ fragment' = FragmentOfPayload(version', key', ciphertext')
    /\ step' = "Tampered"
    /\ UNCHANGED << pairing, message, padding_length, again, plaintext,
                    failure >>

\* _base64url_fragment_to_message(fragment)
Decode ==
    /\ step \in { "Encoded", "Tampered" }
    /\ LET outcome == Base64urlFragmentToMessage(fragment)
       IN  /\ plaintext' = outcome.plaintext
           /\ failure' = outcome.failure
           /\ step' = IF outcome.failure = "none" THEN "Decoded"
                      ELSE "DecodeFailed"
    /\ UNCHANGED << pairing, message, padding_length, key, ciphertext,
                    version, fragment, again >>

CodecNext ==
    \/ Encode
    \/ EncodeAgain
    \/ Tamper
    \/ Decode

CodecSpec == CodecInit /\ [][CodecNext]_vars

(***************************************************************************)
(* Vocabulary of the codec claims.                                         *)
(***************************************************************************)
\* the UTF-8 byte length of a text
ByteLength(text) == Len(Utf8Encode(text))

\* the decoder has run
DecodeDone == step \in { "Decoded", "DecodeFailed" }

\* the token the decoder got is the one the encoder made
Intact ==
    /\ version = 1
    /\ key \in Keys(ByteLength(Ljust(message, padding_length)))
    /\ ciphertext = XorZip(Utf8Encode(Ljust(message, padding_length)), key)

\* text from its first to its last character that is not whitespace
Trimmed(text) ==
    LET inner == { i \in DOMAIN text : ~IsSpace(text[i]) }
    IN  IF inner = {} THEN <<>>
        ELSE SubSeq(text, CHOOSE i \in inner : \A j \in inner : i <= j,
                          CHOOSE i \in inner : \A j \in inner : i >= j)

(***************************************************************************)
(* C12, as stated: for every plaintext P whose UTF-8 byte length is at     *)
(* most padding_length and every key the encoder can draw, decoding the    *)
(* token of P gives P exactly.                                             *)
(***************************************************************************)
C12_RoundTripExact ==
    (DecodeDone /\ Intact /\ ByteLength(message) <= padding_length)
        => (failure = "none" /\ plaintext = message)

(***************************************************************************)
(* C12, amended: for every plaintext P whose UTF-8 byte length is at most  *)
(* padding_length and every key the encoder can draw, decoding the token   *)
(* of P succeeds and gives P without its leading and trailing whitespace;  *)
(* it gives P exactly if and only if P neither begins nor ends with        *)
(* whitespace.                                                             *)
(***************************************************************************)
C12_RoundTripUpToWhitespace ==
    (DecodeDone /\ Intact /\ ByteLength(message) <= padding_length)
        => /\ failure = "none"
           /\ plaintext = Trimmed(message)
           /\ plaintext = message
                <=> \/ message = <<>>
                    \/ /\ ~IsSpace(message[1])
                       /\ ~IsSpace(message[Len(message)])

\* a name with a two-byte character and an inner space comes back whole
\* under a key of mixed bytes
C12_Witness ==
    /\ step = "Decoded"
    /\ Intact
    /\ ByteLength(message) <= padding_length
    /\ ByteLength(message) > Len(message)
    /\ \E i \in DOMAIN key : key[i] \notin { 0, 255 }
    /\ plaintext = message

\* the encoder has been called twice
Twice == step = "EncodedTwice"

(***************************************************************************)
(* C13: for every padding length L and all plaintexts P1, P2 whose UTF-8   *)
(* byte length is at most L, the tokens of P1 and of P2 under L have the   *)
(* same number of characters, whatever keys are drawn.                     *)
(***************************************************************************)
C13_FixedLength ==
    ( /\ Twice
      /\ again.padding_length = padding_length
      /\ ByteLength(message) <= padding_length
      /\ ByteLength(again.message) <= padding_length )
        => Len(again.fragment) = Len(fragment)

\* the two calls encode the same plaintext, the second with more padding
MorePadding ==
    /\ Twice
    /\ again.message = message
    /\ padding_length < again.padding_length

\* the number of 3-byte groups base64 makes of the padded plaintext
Groups(text, width) == (ByteLength(Ljust(text, width)) + 2) \div 3

(***************************************************************************)
(* C14, as stated: for the same plaintext and padding lengths L1 < L2,     *)
(* the token under L2 is strictly longer than the token under L1.          *)
(***************************************************************************)
C14_StrictlyLonger == MorePadding => Len(again.fragment) > Len(fragment)

(***************************************************************************)
(* C14, amended: for the same plaintext and padding lengths L1 < L2, the   *)
(* token under L2 is never shorter than the token under L1, and it is      *)
(* strictly longer if and only if the padded plaintext under L2 fills more *)
(* 3-byte base64 groups than under L1, as "Alice" does with 32 against 16. *)
(***************************************************************************)
C14_LongerByGroups ==
    MorePadding =>
        /\ Len(again.fragment) >= Len(fragment)
        /\ Len(again.fragment) > Len(fragment)
             <=> Groups(message, again.padding_length)
                     > Groups(message, padding_length)
        /\ ( /\ message = Alice
             /\ padding_length = ShortPadding
             /\ again.padding_length = DefaultPadding )
               => Len(again.fragment) > Len(fragment)

\* "Alice" encoded with 16 and then with 32
C14_Witness ==
    /\ MorePadding
    /\ message = Alice
    /\ padding_length = ShortPadding
    /\ again.padding_length = DefaultPadding
    /\ Len(again.fragment) > Len(fragment)

\* the two calls have the same arguments
SameArguments ==
    /\ Twice
    /\ again.message = message
    /\ again.padding_length = padding_length

(***************************************************************************)
(* C15, as stated: two calls of the encoder with the same plaintext and    *)
(* the same padding length produce different tokens.                       *)
(***************************************************************************)
C15_AlwaysDifferent == SameArguments => again.fragment # fragment

(***************************************************************************)
(* C15, amended: two calls of the encoder with the same plaintext and the  *)
(* same padding length produce different tokens if and only if the keys    *)
(* drawn by the two calls differ; the key is drawn anew on each call, and  *)
(* a run in which both draws give the same key (the only possible run when *)
(* the padded plaintext is empty) produces the same token twice.           *)
(***************************************************************************)
C15_DifferentIffKeysDiffer ==
    SameArguments =>
        /\ again.fragment # fragment <=> again.key # key
        /\ ByteLength(Ljust(message, padding_length)) = 0
             => again.fragment = fragment

\* "Alice" encoded twice with the default padding under different keys
C15_Witness ==
    /\ SameArguments
    /\ message = Alice
    /\ padding_length = DefaultPadding
    /\ again.key # key
    /\ again.fragment # fragment

(***************************************************************************)
(* C17: every token produced by the encoder carries a key and a            *)
(* ciphertext whose byte length equals the configured padding_length;     *)
(* read for the plaintexts the encoder is meant for, those whose UTF-8     *)
(* byte length is at most padding_length.                                  *)
(***************************************************************************)
C17_LengthIsPadding ==
    (step = "Encoded" /\ ByteLength(message) <= padding_length) =>
        /\ Len(key) = padding_length
        /\ Len(ciphertext) = padding_length

(***************************************************************************)
(* C18: the decoder fails with the unsupported-version error (the          *)
(* ValueError of crypto_test.py line 28) for every token whose payload     *)
(* version field is not 1, and returns no plaintext then; for version 1 it *)
(* does not raise that error.                                              *)
(***************************************************************************)
C18_UnsupportedVersion ==
    DecodeDone =>
        /\ version # 1 => /\ step = "DecodeFailed"
                          /\ failure = "ValueError"
                          /\ plaintext = <<>>
        /\ version = 1 => failure # "ValueError"

\* a token of version 2 with matching key and ciphertext was refused
C18_Witness ==
    /\ step = "DecodeFailed"
    /\ version = 2
    /\ failure = "ValueError"
    /\ key # <<>>
    /\ Len(key) = Len(ciphertext)

(***************************************************************************)
(* C19: the decoder requires the key and the ciphertext of a token to have *)
(* the same byte length: a token whose key and ciphertext lengths differ   *)
(* is a decode-time failure, never decoded to a (shortened) plaintext.     *)
(***************************************************************************)
C19_LengthMismatchFails ==
    (DecodeDone /\ Len(key) # Len(ciphertext)) =>
        /\ step = "DecodeFailed"
        /\ failure # "none"

(***************************************************************************)
(* cli.py: main and its helpers.  The run reads its two files, validates   *)
(* the names, runs the pairing engine above (main_pc = "Generating" while  *)
(* pc moves) and encodes one URL for each pairing returned.                *)
(***************************************************************************)
\* the names of the files, in file order; "Zoé" has 3 characters and 4
\* UTF-8 bytes, "Alice" is longer than every padding length of the model
Roster == << "Al", "Bo", "Zoé", "Eve", "Alice" >>

\* the code points of a name
NameText(name) ==
    CASE name = "Al" -> << 65, 108 >>
      [] name = "Bo" -> << 66, 111 >>
      [] name = "Zoé" -> << 90, 111, 233 >>
      [] name = "Eve" -> << 69, 118, 101 >>
      [] name = "Alice" -> Alice
      [] OTHER -> <<>>

\* the names of Roster at the places of a set, in the order of Roster
SubList(places) ==
    [ k \in 1..Cardinality(places) |->
        Roster[CHOOSE i \in places :
                 Cardinality({ j \in places : j < i }) = k - 1] ]

File(lines) == [ status |-> "ok", content |-> lines ]

\* read_participants: what it returns for the file, or the file is missing
ParticipantsFiles ==
    { NoFile } \cup
    { File(SubList(places)) : places \in
        { P \in SUBSET DOMAIN Roster : Cardinality(P) <= MaxParticipants } }

\* a couples file with a line that does not hold two names
BadFile == [ status |-> "malformed", content |-> <<>> ]

\* read_couples: what it returns for the file, or its failure
CouplesFiles ==
    { NoFile, BadFile }
        \cup { File(cpls) : cpls \in SeqUpTo({ << "Al", "Bo" >> }, 1) }

\* "https://example.com/", the base URL of the tests
ExampleUrl ==
    << 104, 116, 116, 112, 115, 58, 47, 47, 101, 120, 97, 109, 112,
       108, 101, 46, 99, 111, 109, 47 >>

Url_NoMarker(base, chars) == base \o chars

\* f"{base_url}#{fragment}"
Url(base, chars) == base \o << 35 >> \o chars

\* max(len(name) for name in participants): a length in characters
MaxNameLength(parts) ==
    LET lengths == { Len(NameText(parts[i])) : i \in DOMAIN parts }
    IN  CHOOSE n \in lengths : \A m \in lengths : m <= n

CliInit ==
    /\ participants_file \in ParticipantsFiles
    /\ couples_file \in CouplesFiles
    /\ base_url = ExampleUrl
    /\ padding_length \in 0..MaxPadding
    /\ max_retries \in 0..MaxRetries
    /\ main_pc = "Start"
    /\ urls = <<>>
    /\ steps = <<>>
    /\ participants = <<>>
    /\ couples = <<>>
    /\ pc = "NotCalled"
    /\ attempt = 0
    /\ displacement = 0
    /\ candidates = <<>>
    /\ result = NoResult
    /\ error = "none"
    /\ exit_status = -1
    /\ returned = <<>>
    /\ calls = 0
    /\ draws = 0
    /\ previous = {}
    /\ callee = "none"
    /\ verdict = "none"
    /\ message = <<>>
    /\ step = "NotCalled"
    /\ CodecLocals
    /\ ScriptIdle

\* what main leaves alone until it calls the pairing engine
loop == << attempt, displacement, candidates, result, returned, calls, draws,
           previous, callee, verdict, script >>

arguments == << participants_file, couples_file, base_url, max_retries >>

\* participants = _must_read_participants(args.participants)
MustReadParticipants ==
    /\ main_pc = "Start"
    /\ steps' = Append(steps, "_must_read_participants")
    /\ IF \/ participants_file.status = "missing"
          \/ Len(participants_file.content) < 2
         THEN /\ exit_status' = 1
              /\ main_pc' = "Exited"
              /\ participants' = participants
         ELSE /\ participants' = participants_file.content
              /\ main_pc' = "ParticipantsRead"
              /\ exit_status' = exit_status
    /\ UNCHANGED << arguments, loop, codec, couples, pc, error, urls >>

\* _validate_participant_names_or_exit(participants, args.padding_length)
ValidateParticipantNames ==
    /\ main_pc = "ParticipantsRead"
    /\ steps' = Append(steps, "_validate_participant_names_or_exit")
    /\ IF MaxNameLength(participants) > padding_length
         THEN exit_status' = 1 /\ main_pc' = "Exited"
         ELSE exit_status' = exit_status /\ main_pc' = "NamesValidated"
    /\ UNCHANGED << arguments, loop, codec, participants, couples, pc, error,
                    urls >>

\* couples = _must_read_couples(args.couples), then _print_loaded_data; the
\* ValueError of read_couples is not caught and ends the interpreter with
\* status 1
MustReadCouples ==
    /\ main_pc = "NamesValidated"
    /\ steps' = Append(steps, "_must_read_couples")
    /\ IF couples_file.status = "ok"
         THEN /\ couples' = couples_file.content
              /\ main_pc' = "CouplesRead"
              /\ UNCHANGED << exit_status, error >>
         ELSE /\ exit_status' = 1
              /\ main_pc' = "Exited"
              /\ error' = IF couples_file.status = "malformed"
                          THEN "ValueError" ELSE error
              /\ couples' = couples
    /\ UNCHANGED << arguments, loop, codec, participants, pc, urls >>

\* pairings = _must_generate_pairings(participants, couples, max_retries)
CallMustGeneratePairings ==
    /\ main_pc = "CouplesRead"
    /\ pc = "NotCalled"
    /\ steps' = Append(steps, "_must_generate_pairings")
    /\ pc' = "Idle"
    /\ main_pc' = "Generating"
    /\ UNCHANGED << arguments, loop, codec, participants, couples, error,
                    exit_status, urls >>

\* urls = _generate_urls(pairings, ...): urls = []
CallGenerateUrls ==
    /\ main_pc = "Generating"
    /\ pc = "Accepted"
    /\ returned # <<>>
    /\ steps' = Append(steps, "_generate_urls")
    /\ urls' = <<>>
    /\ main_pc' = "GeneratingUrls"
    /\ UNCHANGED << arguments, loop, codec, participants, couples, pc, error,
                    exit_status >>

\* one turn of the loop of _generate_urls
EncodeReceiver ==
    /\ main_pc = "GeneratingUrls"
    /\ Len(urls) < Len(returned)
    /\ LET giver == returned[Len(urls) + 1][1]
           receiver == returned[Len(urls) + 1][2]
       IN  \E k \in Keys(Len(PaddedBytes(NameText(receiver),
                                         padding_length))) :
             urls' = Append(urls,
                 << giver, receiver,
                    Url(base_url, MessageToBase64urlFragment(
                                      NameText(receiver), padding_length,
                                      k)) >>)
    /\ UNCHANGED << arguments, loop, codec, participants, couples, pc, error,
                    exit_status, main_pc, steps >>

\* the loop is over: _print_urls(urls, ...), and main returns
PrintUrls ==
    /\ main_pc = "GeneratingUrls"
    /\ Len(urls) = Len(returned)
    /\ steps' = Append(steps, "_print_urls")
    /\ exit_status' = 0
    /\ main_pc' = "Done"
    /\ UNCHANGED << arguments, loop, codec, participants, couples, pc, error,
                    urls >>

\* main never has fewer than two participants when it calls the engine, so
\* SampleRaises is not a step of these runs
CliNext ==
    \/ MustReadParticipants
    \/ ValidateParticipantNames
    \/ MustReadCouples
    \/ CallMustGeneratePairings
    \/ Enter
    \/ Sample
    \/ CheckAccept
    \/ CheckRetry
    \/ CheckReject
    \/ MustReturn
    \/ MustExit
    \/ CallGenerateUrls
    \/ EncodeReceiver
    \/ PrintUrls

CliSpec == CliInit /\ [][CliNext]_vars

\* the names main read from the participants file
NamesRead ==
    { participants_file.content[i] : i \in DOMAIN participants_file.content }

\* the validation of the names is behind
Validated == main_pc \notin { "Start", "ParticipantsRead" }

(***************************************************************************)
(* C16: a participant name whose UTF-8 encoded length exceeds the          *)
(* configured padding length is rejected (the CLI exits with status 1)     *)
(* before any pairing displacement is drawn and before any token is        *)
(* encoded; no run reaches pairing or encoding with such a name in the     *)
(* participant list.                                                       *)
(***************************************************************************)
C16_LongNamesRejected ==
    (\E name \in NamesRead : ByteLength(NameText(name)) > padding_length)
        => /\ draws = 0
           /\ urls = <<>>
           /\ Validated => exit_status = 1

\* the calls of main, in the order of its text
MainOrder ==
    << "_must_read_participants", "_validate_participant_names_or_exit",
       "_must_read_couples", "_must_generate_pairings", "_generate_urls",
       "_print_urls" >>

IsPrefix(s, t) == Len(s) <= Len(t) /\ \A i \in DOMAIN s : s[i] = t[i]

\* main has called its n-th function
Called(n) == Len(steps) >= n

\* what makes each of the first three calls fail
ParticipantsFail ==
    participants_file.status = "missing" \/ Len(participants_file.content) < 2
NamesFail == \E name \in NamesRead : Len(NameText(name)) > padding_length
CouplesFail == couples_file.status # "ok"

\* the steps of main so far are the first steps of its order
C20_Order == IsPrefix(steps, MainOrder)

\* a failing step exits with status 1 and is the last step of the run
C20_FailStop ==
    /\ (Called(1) /\ ParticipantsFail) => (exit_status = 1 /\ ~Called(2))
    /\ (Called(2) /\ NamesFail) => (exit_status = 1 /\ ~Called(3))
    /\ (Called(3) /\ CouplesFail) => (exit_status = 1 /\ ~Called(4))
    /\ pc = "Rejected" => ~Called(5)
    /\ exit_status \in { -1, 0, 1 }
    /\ exit_status = 1 => (urls = <<>> /\ ~Called(5))
    /\ exit_status = 0 <=> Called(6)

\* no token before generate_valid_pairings has accepted an assignment set
C20_Accepted ==
    (Called(5) \/ urls # <<>>) =>
        /\ pc = "Accepted"
        /\ result # NoResult
        /\ returned = result[1]
        /\ ~ViolatesCouplesConstraint(returned, couples)

\* the i-th URL belongs to the i-th assignment: its giver, its receiver,
\* and base_url, "#" and a token that decodes to the receiver's name
C20_Urls ==
    /\ Len(urls) <= Len(returned)
    /\ exit_status = 0 => Len(urls) = Len(returned)
    /\ \A i \in DOMAIN urls :
         LET url == urls[i][3]
             marker == Len(base_url) + 1
         IN  /\ urls[i][1] = returned[i][1]
             /\ urls[i][2] = returned[i][2]
             /\ IsPrefix(base_url, url)
             /\ Len(url) > marker
             /\ url[marker] = 35
             /\ Base64urlFragmentToMessage(SubSeq(url, marker + 1, Len(url)))
                  = Returned(NameText(urls[i][2]))

\* the step after generate_valid_pairings has failed is the exit with
\* status 1, and once the run has exited with status 1 nothing more is done
C20_Halt ==
    /\ pc = "Rejected" => exit_status' = 1
    /\ exit_status = 1 =>
          UNCHANGED << steps, urls, draws, calls, exit_status >>

(***************************************************************************)
(* C20: in main the steps run in the order read participants, validate     *)
(* names, read couples, generate pairings, encode URLs; a failing step     *)
(* exits with status 1 and no later step runs; no token is encoded unless  *)
(* generate_valid_pairings has accepted an assignment set, and then        *)
(* exactly one URL base_url + "#" + token is produced per assignment, with *)
(* the assignment's giver and receiver.                                    *)
(***************************************************************************)
C20_MainFlow ==
    /\ [](C20_Order /\ C20_FailStop /\ C20_Accepted /\ C20_Urls)
    /\ [][C20_Halt]_vars

\* a run of four participants and one couple that drew twice and printed
\* its four URLs
C20_Witness ==
    /\ main_pc = "Done"
    /\ exit_status = 0
    /\ couples # <<>>
    /\ draws = 2
    /\ Len(urls) = 4
    /\ steps = MainOrder

\* generate_pairings is about to draw for a list it accepts
AboutToDraw == pc = "Sampling" /\ ~TooFewParticipants(participants)

\* the list of the cyclic shift by d, written with the indices 0..N-1 of
\* the program
ShiftedBy(parts, d) ==
    LET N == Len(parts)
    IN  [ k \in 1..N |-> << parts[k], parts[((k - 1 + d) % N) + 1] >> ]

\* what generate_pairings has returned is the shift by the displacement
C21_IsShift ==
    candidates # <<>> =>
        /\ displacement >= 1
        /\ displacement <= Len(participants) - 1
        /\ candidates = ShiftedBy(participants, displacement)

\* each displacement of 1..N-1 can be the next draw
C21_EveryDraw ==
    AboutToDraw =>
        \A d \in 1..(Len(participants) - 1) :
            ENABLED (Sample /\ displacement' = d)

(***************************************************************************)
(* C21: generate_pairings is exactly a cyclic shift: for N >= 2            *)
(* participants it draws one displacement d with 1 <= d <= N-1 and returns *)
(* the list whose i-th element, in participant order, is                   *)
(* (participants[i], participants[(i + d) mod N]); every d in 1..N-1 is a  *)
(* possible draw and no other output is possible.                          *)
(***************************************************************************)
C21_ExactlyCyclicShift == C21_IsShift /\ C21_EveryDraw

\* four participants shifted by 3, the largest displacement
C21_Witness ==
    /\ pc = "Checking"
    /\ Len(participants) = 4
    /\ Unique(participants)
    /\ displacement = 3
    /\ candidates[1] = << participants[1], participants[4] >>
    /\ candidates[2] = << participants[2], participants[1] >>

\* the shifts of the participants that violate the couples
ViolatingShifts ==
    { d \in 1..(Len(participants) - 1) :
        ViolatesCouplesConstraint(ShiftedBy(participants, d), couples) }

\* some displacement gives a valid assignment set and some does not
Mixed ==
    /\ ViolatingShifts # {}
    /\ ViolatingShifts # 1..(Len(participants) - 1)

\* on mixed inputs a violating draw is possible at every attempt, and a
\* violating candidate is never accepted: the run that draws so each time
\* goes on to the failure
C22_CanKeepFailing ==
    /\ (Mixed /\ pc = "Sampling") =>
           ENABLED (Sample /\ ViolatesCouplesConstraint(candidates', couples))
    /\ (pc = "Checking" /\ ViolatesCouplesConstraint(candidates, couples)) =>
           (~ENABLED CheckAccept /\ ENABLED (CheckRetry \/ CheckReject))

\* the failure comes after max_retries draws and is an exception, and what
\* is returned is never empty nor violating
C22_Reported ==
    /\ pc = "Rejected" => /\ draws = max_retries
                          /\ error = "PairingGenerationError"
                          /\ result = NoResult
                          /\ returned = <<>>
    /\ result # NoResult => /\ pc = "Accepted"
                            /\ result[1] # <<>>
                            /\ ~ViolatesCouplesConstraint(result[1], couples)

(***************************************************************************)
(* C22: generate_valid_pairings can fail even when a valid assignment      *)
(* exists: for inputs where at least one displacement yields a             *)
(* non-violating candidate and at least one a violating candidate, there   *)
(* is a run that ends in the failure after max_retries draws, and the      *)
(* failure is always reported to the caller (the exception, then exit      *)
(* status 1), never a silent return of a violating or empty set.           *)
(***************************************************************************)
C22_CanFailThoughSatisfiable ==
    /\ [](C22_CanKeepFailing /\ C22_Reported)
    /\ [][pc = "Rejected" => exit_status' = 1]_vars

\* a run on mixed inputs that failed after two violating draws
C22_Witness ==
    /\ Mixed
    /\ Unique(participants)
    /\ pc = "Rejected"
    /\ max_retries = 2
    /\ draws = 2
    /\ exit_status = 1

\* a ^ b of two bytes, bit by bit
ByteXor(a, b) ==
    LET Bit(x, j) == (x \div (2 ^ j)) % 2
        Place(j) == ((Bit(a, j) + Bit(b, j)) % 2) * (2 ^ j)
    IN  Place(0) + Place(1) + Place(2) + Place(3) + Place(4) + Place(5)
            + Place(6) + Place(7)

\* key and ciphertext are those of the first call of the encoder
FirstCallKept == step \in { "Encoded", "EncodedTwice" }

(***************************************************************************)
(* C23: in every call of the encoder the key has exactly the byte length   *)
(* of the UTF-8 encoded padded message and so does the ciphertext, and     *)
(* each ciphertext byte is the XOR of the message byte and the key byte    *)
(* at the same index, so that ciphertext XOR key gives back the padded     *)
(* message.                                                                *)
(***************************************************************************)
C23_OneTimePad ==
    FirstCallKept =>
        LET message_bytes == Utf8Encode(Ljust(message, padding_length))
        IN  /\ Len(key) = Len(message_bytes)
            /\ Len(ciphertext) = Len(message_bytes)
            /\ \A i \in DOMAIN message_bytes :
                 /\ ciphertext[i] = ByteXor(message_bytes[i], key[i])
                 /\ ByteXor(ciphertext[i], key[i]) = message_bytes[i]

\* a padded plaintext with a two-byte character under the key of mixed bytes
C23_Witness ==
    /\ step = "Encoded"
    /\ ByteLength(message) > Len(message)
    /\ padding_length > Len(message)
    /\ \E i \in DOMAIN key : key[i] \notin { 0, 255 }
    /\ ciphertext # Utf8Encode(Ljust(message, padding_length))

\* the decoder has run on the token of a plaintext that fits the padding
DecodedFitting ==
    DecodeDone /\ Intact /\ ByteLength(message) <= padding_length

\* text without the whitespace at its end
WithoutTrailing(text) ==
    LET inner == { i \in DOMAIN text : ~IsSpace(text[i]) }
    IN  IF inner = {} THEN <<>>
        ELSE SubSeq(text, 1, CHOOSE i \in inner : \A j \in inner : i >= j)

(***************************************************************************)
(* C24, as stated: the decoder removes only trailing whitespace: for every *)
(* plaintext P that fits the padding, decoding the token of P gives P with *)
(* its trailing whitespace removed, so that leading whitespace and inner   *)
(* spaces of P are preserved.                                              *)
(***************************************************************************)
C24_TrailingOnly ==
    DecodedFitting =>
        (failure = "none" /\ plaintext = WithoutTrailing(message))

(***************************************************************************)
(* C24, amended: the decoder removes the whitespace at both ends of the    *)
(* decrypted text: for every plaintext P that fits the padding, decoding   *)
(* the token of P gives the part of P between its leading and its trailing *)
(* whitespace, so that inner spaces of P (as in "Alice Smith") are         *)
(* preserved and leading whitespace is lost like the padding.              *)
(***************************************************************************)
C24_BothEndsInnerKept ==
    DecodedFitting =>
        /\ failure = "none"
        /\ \E lead, trail \in 0..Len(message) :
             /\ lead + Len(plaintext) + trail = Len(message)
             /\ \A i \in 1..lead : IsSpace(message[i])
             /\ \A i \in 1..Len(plaintext) : plaintext[i] = message[lead + i]
             /\ \A i \in (lead + Len(plaintext) + 1)..Len(message) :
                  IsSpace(message[i])
        /\ plaintext # <<>> => /\ ~IsSpace(plaintext[1])
                               /\ ~IsSpace(plaintext[Len(plaintext)])
        /\ message = AliceSmith => plaintext = AliceSmith

\* "Alice Smith" came back with its inner space from the default padding
C24_Witness ==
    /\ step = "Decoded"
    /\ Intact
    /\ message = AliceSmith
    /\ padding_length = DefaultPadding
    /\ plaintext = AliceSmith

\* d is a distance of 1..N-1 at which the two members of some couple stand
\* in the participant list, counted in either direction around the list
ForbiddenDistance(d) ==
    LET N == Len(participants)
    IN  /\ d \in 1..(N - 1)
        /\ \E c \in DOMAIN couples : \E i, j \in 1..N :
              /\ participants[i] = couples[c][1]
              /\ participants[j] = couples[c][2]
              /\ (j - i) % N = d \/ (i - j) % N = d

\* the set of the forbidden distances of the participant list
ForbiddenDistances ==
    { d \in 1..(Len(participants) - 1) : ForbiddenDistance(d) }

\* some couple is made of two different participants
CoupleAmongParticipants ==
    \E c \in DOMAIN couples :
        /\ couples[c][1] # couples[c][2]
        /\ { couples[c][1], couples[c][2] } \subseteq Range(participants)

\* a candidate violates exactly when its displacement is a forbidden distance
C25_ViolatesIffForbidden ==
    HasCandidates =>
        (ViolatesCouplesConstraint(candidates, couples)
            <=> ForbiddenDistance(displacement))

\* success is possible exactly when some distance is not forbidden: an
\* accepted displacement is never forbidden, and while attempts are left
\* and some distance is not forbidden, the draw of such a distance is
\* possible and is accepted
C25_SucceedsIffAllowed ==
    Unique(participants) =>
        /\ pc = "Accepted" => ~ForbiddenDistance(displacement)
        /\ ( /\ pc = "Sampling"
             /\ ForbiddenDistances # 1..(Len(participants) - 1) ) =>
               ENABLED (Sample /\ ~ForbiddenDistance(displacement'))
        /\ (pc = "Checking" /\ ~ForbiddenDistance(displacement)) =>
             ENABLED CheckAccept

\* with three participants a couple forbids both distances, and the run
\* can only end in the failure
C25_ThreeWithCouple ==
    ( /\ Unique(participants)
      /\ Len(participants) = 3
      /\ CoupleAmongParticipants ) =>
        /\ ForbiddenDistances = { 1, 2 }
        /\ pc \in Terminal => pc = "Rejected"
        /\ pc = "Checking" => ENABLED (CheckRetry \/ CheckReject)

(***************************************************************************)
(* C25: for unique participants the candidate with displacement d violates *)
(* the exclusions if and only if some couple has both members in the       *)
(* participant list at indices i and j with (j - i) mod N = d or           *)
(* (i - j) mod N = d; hence generate_valid_pairings, given at least one    *)
(* attempt, can succeed if and only if some d in 1..N-1 is not such a      *)
(* forbidden distance, and with N = 3 any couple of two distinct           *)
(* participants makes every run end in the failure.                        *)
(***************************************************************************)
C25_ForbiddenDistances ==
    /\ C25_ViolatesIffForbidden
    /\ C25_SucceedsIffAllowed
    /\ C25_ThreeWithCouple

\* three participants and a couple among them: two draws, both forbidden
C25_Witness ==
    /\ Unique(participants)
    /\ Len(participants) = 3
    /\ CoupleAmongParticipants
    /\ pc = "Rejected"
    /\ draws = 2
    /\ AllDrawn = { ShiftedBy(participants, 1), ShiftedBy(participants, 2) }

(***************************************************************************)
(* The retry loop of main() of the standalone script generate.py, run on   *)
(* the arguments and on the draws of generate_valid_pairings: the package  *)
(* draws a displacement, the script replays it.                            *)
(***************************************************************************)
\* generate.py, generate_pairings: raise ValueError when n < 2
ScriptTooFewParticipants(parts) == Len(parts) < 2

\* mutant: secrets.randbelow(n - 1), without the + 1
ScriptDisplacements_NoShift(n) == 0..(n - 2)

\* generate.py: the values secrets.randbelow(n - 1) + 1 can take
ScriptDisplacements(n) == { r + 1 : r \in 0..(n - 2) }

\* generate.py: the loop of generate_pairings for a drawn displacement
ScriptBuildPairings(parts, d) ==
    LET n == Len(parts)
    IN  [ i \in 1..n |-> << parts[i], parts[(((i - 1) + d) % n) + 1] >> ]

\* generate.py: print(f"Found valid pairings after {attempt + 1} attempts")
\* when attempt > 0
ScriptPrinted(att) == IF att > 0 THEN att + 1 ELSE 0

ScriptTerminal == { "Accepted", "Exited", "Raised" }

\* generate_valid_pairings waits for the script: it has ended, or it is
\* about to draw again and the script has not replayed its last draw
PackageWaits ==
    \/ pc \in Terminal
    \/ pc = "Sampling" /\ script_draws < draws

package == << participants, couples, max_retries, pc, attempt, displacement,
              candidates, result, error, exit_status, returned, calls, draws,
              previous, callee, verdict, codec, cli >>

\* after the for loop: if pairings is None: sys.exit(1)
ScriptAfterLoop(pairings) ==
    IF pairings = NoPairings
      THEN script_pc' = "Exited" /\ script_exit' = 1
      ELSE script_pc' = "Accepted" /\ script_exit' = script_exit

\* pairings = None, and the first next() of range(max_retries)
ScriptEnter ==
    /\ script_pc = "Idle"
    /\ PackageWaits
    /\ script_pairings' = NoPairings
    /\ IF RangeHasNext(0, max_retries)
         THEN script_pc' = "Sampling" /\ script_exit' = script_exit
         ELSE ScriptAfterLoop(NoPairings)
    /\ UNCHANGED << package, script_attempt, candidate_pairings,
                    script_printed, script_draws >>

\* candidate_pairings = generate_pairings(participants), with n >= 2, on
\* the displacement generate_valid_pairings drew last
ScriptSample ==
    /\ script_pc = "Sampling"
    /\ PackageWaits
    /\ ~ScriptTooFewParticipants(participants)
    /\ draws = script_draws + 1
    /\ \E d \in ScriptDisplacements(Len(participants)) :
         /\ d = displacement
         /\ candidate_pairings' = ScriptBuildPairings(participants, d)
    /\ script_draws' = script_draws + 1
    /\ script_pc' = "Checking"
    /\ UNCHANGED << package, script_attempt, script_pairings, script_printed,
                    script_exit >>

\* its generate_pairings raises ValueError, which the loop does not catch
ScriptSampleRaises ==
    /\ script_pc = "Sampling"
    /\ PackageWaits
    /\ ScriptTooFewParticipants(participants)
    /\ script_pc' = "Raised"
    /\ UNCHANGED << package, script_attempt, candidate_pairings,
                    script_pairings, script_printed, script_exit,
                    script_draws >>

\* if not violates_couples_constraint(...): pairings = candidate_pairings,
\* the message when attempt > 0, break
ScriptCheckAccept ==
    /\ script_pc = "Checking"
    /\ PackageWaits
    /\ ~ScriptViolatesCouplesConstraint(candidate_pairings, couples)
    /\ script_pairings' = candidate_pairings
    /\ script_printed' = ScriptPrinted(script_attempt)
    /\ ScriptAfterLoop(candidate_pairings)
    /\ UNCHANGED << package, script_attempt, candidate_pairings,
                    script_draws >>

\* the candidate violates and range(max_retries) yields another attempt
ScriptCheckRetry ==
    /\ script_pc = "Checking"
    /\ PackageWaits
    /\ ScriptViolatesCouplesConstraint(candidate_pairings, couples)
    /\ RangeHasNext(script_attempt + 1, max_retries)
    /\ script_attempt' = script_attempt + 1
    /\ script_pc' = "Sampling"
    /\ UNCHANGED << package, candidate_pairings, script_pairings,
                    script_printed, script_exit, script_draws >>

\* the candidate violates and the range is exhausted: the loop ends with
\* pairings still None
ScriptCheckExit ==
    /\ script_pc = "Checking"
    /\ PackageWaits
    /\ ScriptViolatesCouplesConstraint(candidate_pairings, couples)
    /\ ~RangeHasNext(script_attempt + 1, max_retries)
    /\ ScriptAfterLoop(script_pairings)
    /\ UNCHANGED << package, script_attempt, candidate_pairings,
                    script_pairings, script_printed, script_draws >>

\* generate_valid_pairings draws once the script has replayed its draws
LeadSample ==
    /\ script_draws = draws
    /\ Sample

\* both loops on the same arguments
LoopsInit ==
    /\ participants \in ParticipantLists
    /\ couples \in CoupleLists
    /\ max_retries \in 0..MaxRetries
    /\ pc = "Idle"
    /\ attempt = 0
    /\ displacement = 0
    /\ candidates = <<>>
    /\ result = NoResult
    /\ error = "none"
    /\ exit_status = -1
    /\ returned = <<>>
    /\ calls = 0
    /\ draws = 0
    /\ previous = {}
    /\ callee = "none"
    /\ verdict = "none"
    /\ CodecIdle
    /\ CliIdle
    /\ script_pc = "Idle"
    /\ ScriptLocals

\* a direct call of either violates_couples_constraint on any pairs and on
\* the couples the loops are run on
DirectInit ==
    /\ candidates \in SeqUpTo(AnyPairs, MaxPairs)
    /\ couples \in CoupleLists
    /\ callee \in { "package", "script" }
    /\ verdict = "none"
    /\ participants = <<>>
    /\ max_retries = 0
    /\ pc = "NotCalled"
    /\ attempt = 0
    /\ displacement = 0
    /\ result = NoResult
    /\ error = "none"
    /\ exit_status = -1
    /\ returned = <<>>
    /\ calls = 0
    /\ draws = 0
    /\ previous = {}
    /\ CodecIdle
    /\ CliIdle
    /\ ScriptIdle

\* the two loops, or a direct call of either violates_couples_constraint
ScriptInit == LoopsInit \/ DirectInit

ScriptNext ==
    \/ Enter
    \/ LeadSample
    \/ SampleRaises
    \/ CheckAccept
    \/ CheckRetry
    \/ CheckReject
    \/ ScriptEnter
    \/ ScriptSample
    \/ ScriptSampleRaises
    \/ ScriptCheckAccept
    \/ ScriptCheckRetry
    \/ ScriptCheckExit
    \/ CallViolates
    \/ CallScriptViolates

ScriptSpec == ScriptInit /\ [][ScriptNext]_vars

\* a step of either loop
LoopsStep ==
    \/ Enter
    \/ LeadSample
    \/ SampleRaises
    \/ CheckAccept
    \/ CheckRetry
    \/ CheckReject
    \/ ScriptEnter
    \/ ScriptSample
    \/ ScriptSampleRaises
    \/ ScriptCheckAccept
    \/ ScriptCheckRetry
    \/ ScriptCheckExit

\* the two loops are run, and both have ended
BothEnded == pc \in Terminal /\ script_pc \in ScriptTerminal

\* generate_pairings of the two files gives equal results on the
\* participants the loops are entered with, violates_couples_constraint
\* on the candidates and couples of every state, and a direct call returns
\* what both of them compute
C26_SameFunctions ==
    LET tot == Len(participants)
    IN  /\ (pc = "Idle" /\ script_pc = "Idle") =>
              /\ ScriptTooFewParticipants(participants)
                    <=> TooFewParticipants(participants)
              /\ ScriptDisplacements(tot) = Displacements(tot)
              /\ \A d \in Displacements(tot) :
                    ScriptBuildPairings(participants, d)
                        = BuildPairings(participants, d)
        /\ ScriptViolatesCouplesConstraint(candidates, couples)
              <=> ViolatesCouplesConstraint(candidates, couples)
        /\ verdict # "none" =>
              /\ verdict = PyBool(ViolatesCouplesConstraint(candidates, couples))
              /\ verdict
                   = PyBool(ScriptViolatesCouplesConstraint(candidates, couples))

\* on the same draws the two loops end in the same outcome
C26_SameOutcome ==
    BothEnded =>
        /\ script_draws = draws
        /\ pc = "Accepted" =>
             /\ script_pc = "Accepted"
             /\ script_pairings = result[1]
             /\ script_attempt + 1 = result[2]
             /\ script_printed = (IF result[2] > 1 THEN result[2] ELSE 0)
             /\ script_exit = -1
        /\ pc = "Rejected" =>
             /\ script_pc = "Exited"
             /\ script_exit = 1
             /\ script_pairings = NoPairings
             /\ draws = max_retries
        /\ pc = "Raised" => script_pc = "Raised"

\* neither loop ends or stalls while the other goes on: until both have
\* ended one of them has a step, the script on the draw of the package
C26_InStep ==
    (script_pc # "NotCalled" /\ ~BothEnded) => ENABLED LoopsStep

(***************************************************************************)
(* C26: the script and the package implement the same pairing logic: on    *)
(* the same participants, couples, retry budget and sequence of drawn      *)
(* displacements the retry loop of main of generate.py and                 *)
(* generate_valid_pairings end in the same outcome (the same accepted      *)
(* pairings after the same number of attempts, or the failure after        *)
(* max_retries draws), and their generate_pairings and                     *)
(* violates_couples_constraint return equal results on equal inputs.       *)
(***************************************************************************)
C26_ScriptMatchesPackage ==
    /\ C26_SameFunctions
    /\ C26_SameOutcome
    /\ C26_InStep

\* both loops accepted the second draw of four participants with a couple
C26_Witness ==
    /\ Len(participants) = 4
    /\ Unique(participants)
    /\ couples # <<>>
    /\ pc = "Accepted"
    /\ script_pc = "Accepted"
    /\ draws = 2
    /\ script_draws = 2
    /\ script_pairings = result[1]
    /\ script_printed = 2

=============================================================================
